---- MODULE Spec2Model ----
(***************************************************************************)
(* Model of src/src/reacher/remote/hardware_tab.py: the HardwareTab        *)
(* controller of the REACHER dashboard.  Every handler is translated from  *)
(* its Python body as an operator on a record of the controller's state;   *)
(* the actions apply the operators to the variables.  Spec has the ten     *)
(* widget callbacks; SpecArm, SpecConfig, SpecBatch and SpecWave follow    *)
(* the toggles, the configuration senders, arm_devices and the plot.       *)
(***************************************************************************)
EXTENDS Integers, Sequences, FiniteSets, TLC

VARIABLES
    api_connected,    \* Dashboard.api_connected, read by every handler
    armed,            \* the seven *_armed flags, keyed by attribute prefix
    icon,             \* the icon of the seven arm_*_button toggles
    cue_frequency,    \* cue_frequency_intslider.value
    cue_duration,     \* cue_duration_intslider.value
    stim_mode,        \* stim_mode_widget.value
    stim_frequency,   \* stim_frequency_slider.value
    stim_duration,    \* stim_duration_slider.value
    posts,            \* every requests.post issued, with its outcome
    responses,        \* messages recorded through add_response
    errors,           \* entries recorded through add_error
    calls,            \* one record per handler invocation (observer)
    square_wave       \* samples of the last plot_square_wave, <<>> if none

vars == <<api_connected, armed, icon, cue_frequency, cue_duration, stim_mode,
          stim_frequency, stim_duration, posts, responses, errors, calls,
          square_wave>>

(***************************************************************************)
(* Bounds of the model.                                                    *)
(***************************************************************************)
MaxCalls == 2       \* handler invocations in a behaviour of Spec
MaxToggles == 3     \* toggle invocations in a behaviour of SpecArm
MaxSends == 2       \* configuration sends in a behaviour of SpecConfig
MaxBatches == 2     \* arm_devices invocations in a behaviour of SpecBatch
MaxDevices == 2     \* length of the list given to arm_devices

(***************************************************************************)
(* The seven devices, named by the prefix of their *_armed attribute.      *)
(***************************************************************************)
Devices == {"rh_lever", "lh_lever", "cue", "pump", "lick_circuit",
            "microscope", "laser"}

\* Outcome of one requests.post followed by raise_for_status: a 2xx status,
\* a non-2xx status (HTTPError) or a transport exception raised by post.
Outcomes == {"2xx", "non2xx", "exception"}

Raises(outcome) == outcome # "2xx"

\* str(e) of the exception an unsuccessful request raises.
ErrorText(outcome) ==
    IF outcome = "non2xx" THEN "HTTPError" ELSE "ConnectionError"

NotConnectedMessage == "Please connect to the API first."

\* The controller's mutable state as one record, the value the handler
\* operators transform.  raised is TRUE when an exception left the handler.
Cur == [armed |-> armed, icon |-> icon, posts |-> posts,
        responses |-> responses, errors |-> errors, raised |-> FALSE]

add_response(st, message) ==
    [st EXCEPT !.responses = Append(@, message)]

add_error(st, label, detail) ==
    [st EXCEPT !.errors = Append(@, [label |-> label, detail |-> detail])]

\* requests.post(timeout=5, url=.../serial/command, json={'command': c})
Post(st, command, outcome) ==
    [st EXCEPT !.posts = Append(@, [command |-> command, outcome |-> outcome])]

(***************************************************************************)
(* The seven arm/disarm handlers.                                          *)
(***************************************************************************)
arm_rh_lever(st, connected, outcome) ==
    IF ~connected THEN add_response(st, NotConnectedMessage)
    ELSE LET s1 == IF ~st.armed["rh_lever"]
                   THEN [st EXCEPT !.armed["rh_lever"] = TRUE,
                                   !.icon["rh_lever"] = "unlock"]
                   ELSE [st EXCEPT !.armed["rh_lever"] = FALSE,
                                   !.icon["rh_lever"] = "lock"]
             data == IF ~st.armed["rh_lever"] THEN "ARM_LEVER_RH"
                                              ELSE "DISARM_LEVER_RH"
             s2 == Post(s1, data, outcome)
         IN  IF Raises(outcome)
             THEN add_error(s2, "Failed to arm or disarm RH lever",
                            ErrorText(outcome))
             ELSE s2

arm_lh_lever(st, connected, outcome) ==
    IF ~connected THEN add_response(st, NotConnectedMessage)
    ELSE LET s1 == IF ~st.armed["lh_lever"]
                   THEN [st EXCEPT !.armed["lh_lever"] = TRUE,
                                   !.icon["lh_lever"] = "unlock"]
                   ELSE [st EXCEPT !.armed["lh_lever"] = FALSE,
                                   !.icon["lh_lever"] = "lock"]
             data == IF ~st.armed["lh_lever"] THEN "ARM_LEVER_LH"
                                              ELSE "DISARM_LEVER_LH"
             s2 == Post(s1, data, outcome)
         IN  IF Raises(outcome)
             THEN add_error(s2, "Failed to arm or disarm LH lever",
                            ErrorText(outcome))
             ELSE s2

\* arm_cs with an except clause that restores the flag and the icon.
arm_cs_rollback(st, connected, outcome) ==
    IF ~connected THEN add_response(st, NotConnectedMessage)
    ELSE LET s1 == IF ~st.armed["cue"]
                   THEN [st EXCEPT !.armed["cue"] = TRUE,
                                   !.icon["cue"] = "unlock"]
                   ELSE [st EXCEPT !.armed["cue"] = FALSE,
                                   !.icon["cue"] = "lock"]
             data == IF ~st.armed["cue"] THEN "ARM_CS" ELSE "DISARM_CS"
             s2 == Post(s1, data, outcome)
         IN  IF Raises(outcome)
             THEN add_error([s2 EXCEPT !.armed = st.armed, !.icon = st.icon],
                            "Failed to arm or disarm CS", ErrorText(outcome))
             ELSE s2

arm_cs(st, connected, outcome) ==
    IF ~connected THEN add_response(st, NotConnectedMessage)
    ELSE LET s1 == IF ~st.armed["cue"]
                   THEN [st EXCEPT !.armed["cue"] = TRUE,
                                   !.icon["cue"] = "unlock"]
                   ELSE [st EXCEPT !.armed["cue"] = FALSE,
                                   !.icon["cue"] = "lock"]
             data == IF ~st.armed["cue"] THEN "ARM_CS" ELSE "DISARM_CS"
             s2 == Post(s1, data, outcome)
         IN  IF Raises(outcome)
             THEN add_error(s2, "Failed to arm or disarm CS",
                            ErrorText(outcome))
             ELSE s2

\* arm_pump with a disarming branch that leaves the flag set.
arm_pump_latched(st, connected, outcome) ==
    IF ~connected THEN add_response(st, NotConnectedMessage)
    ELSE LET s1 == IF ~st.armed["pump"]
                   THEN [st EXCEPT !.armed["pump"] = TRUE,
                                   !.icon["pump"] = "unlock"]
                   ELSE [st EXCEPT !.armed["pump"] = TRUE,
                                   !.icon["pump"] = "unlock"]
             data == IF ~st.armed["pump"] THEN "ARM_PUMP" ELSE "DISARM_PUMP"
             s2 == Post(s1, data, outcome)
         IN  IF Raises(outcome)
             THEN add_error(s2, "Failed to arm or disarm pump",
                            ErrorText(outcome))
             ELSE s2

arm_pump(st, connected, outcome) ==
    IF ~connected THEN add_response(st, NotConnectedMessage)
    ELSE LET s1 == IF ~st.armed["pump"]
                   THEN [st EXCEPT !.armed["pump"] = TRUE,
                                   !.icon["pump"] = "unlock"]
                   ELSE [st EXCEPT !.armed["pump"] = FALSE,
                                   !.icon["pump"] = "lock"]
             data == IF ~st.armed["pump"] THEN "ARM_PUMP" ELSE "DISARM_PUMP"
             s2 == Post(s1, data, outcome)
         IN  IF Raises(outcome)
             THEN add_error(s2, "Failed to arm or disarm pump",
                            ErrorText(outcome))
             ELSE s2

\* arm_lick_circuit with the two commands exchanged.
arm_lick_circuit_swapped(st, connected, outcome) ==
    IF ~connected THEN add_response(st, NotConnectedMessage)
    ELSE LET s1 == IF ~st.armed["lick_circuit"]
                   THEN [st EXCEPT !.armed["lick_circuit"] = TRUE,
                                   !.icon["lick_circuit"] = "unlock"]
                   ELSE [st EXCEPT !.armed["lick_circuit"] = FALSE,
                                   !.icon["lick_circuit"] = "lock"]
             data == IF ~st.armed["lick_circuit"] THEN "DISARM_LICK_CIRCUIT"
                                                  ELSE "ARM_LICK_CIRCUIT"
             s2 == Post(s1, data, outcome)
         IN  IF Raises(outcome)
             THEN add_error(s2, "Failed to arm or disarm lick circuit",
                            ErrorText(outcome))
             ELSE s2

arm_lick_circuit(st, connected, outcome) ==
    IF ~connected THEN add_response(st, NotConnectedMessage)
    ELSE LET s1 == IF ~st.armed["lick_circuit"]
                   THEN [st EXCEPT !.armed["lick_circuit"] = TRUE,
                                   !.icon["lick_circuit"] = "unlock"]
                   ELSE [st EXCEPT !.armed["lick_circuit"] = FALSE,
                                   !.icon["lick_circuit"] = "lock"]
             data == IF ~st.armed["lick_circuit"] THEN "ARM_LICK_CIRCUIT"
                                                  ELSE "DISARM_LICK_CIRCUIT"
             s2 == Post(s1, data, outcome)
         IN  IF Raises(outcome)
             THEN add_error(s2, "Failed to arm or disarm lick circuit",
                            ErrorText(outcome))
             ELSE s2

\* arm_frames pasted from arm_laser with the attribute names left as they
\* were: it toggles the laser's flag and icon.
arm_frames_pasted(st, connected, outcome) ==
    IF ~connected THEN add_response(st, NotConnectedMessage)
    ELSE LET s1 == IF ~st.armed["laser"]
                   THEN [st EXCEPT !.armed["laser"] = TRUE,
                                   !.icon["laser"] = "unlock"]
                   ELSE [st EXCEPT !.armed["laser"] = FALSE,
                                   !.icon["laser"] = "lock"]
             data == IF ~st.armed["laser"] THEN "ARM_FRAME"
                                           ELSE "DISARM_FRAME"
             s2 == Post(s1, data, outcome)
         IN  IF Raises(outcome)
             THEN add_error(s2, "Failed to arm or disarm 2P",
                            ErrorText(outcome))
             ELSE s2

arm_frames(st, connected, outcome) ==
    IF ~connected THEN add_response(st, NotConnectedMessage)
    ELSE LET s1 == IF ~st.armed["microscope"]
                   THEN [st EXCEPT !.armed["microscope"] = TRUE,
                                   !.icon["microscope"] = "unlock"]
                   ELSE [st EXCEPT !.armed["microscope"] = FALSE,
                                   !.icon["microscope"] = "lock"]
             data == IF ~st.armed["microscope"] THEN "ARM_FRAME"
                                                ELSE "DISARM_FRAME"
             s2 == Post(s1, data, outcome)
         IN  IF Raises(outcome)
             THEN add_error(s2, "Failed to arm or disarm 2P",
                            ErrorText(outcome))
             ELSE s2

\* arm_laser with a disarming branch that forgets the icon.
arm_laser_stale_icon(st, connected, outcome) ==
    IF ~connected THEN add_response(st, NotConnectedMessage)
    ELSE LET s1 == IF ~st.armed["laser"]
                   THEN [st EXCEPT !.armed["laser"] = TRUE,
                                   !.icon["laser"] = "unlock"]
                   ELSE [st EXCEPT !.armed["laser"] = FALSE]
             data == IF ~st.armed["laser"] THEN "ARM_LASER"
                                           ELSE "DISARM_LASER"
             s2 == Post(s1, data, outcome)
         IN  IF Raises(outcome)
             THEN add_error(s2, "Failed to arm or disarm laser",
                            ErrorText(outcome))
             ELSE s2

arm_laser(st, connected, outcome) ==
    IF ~connected THEN add_response(st, NotConnectedMessage)
    ELSE LET s1 == IF ~st.armed["laser"]
                   THEN [st EXCEPT !.armed["laser"] = TRUE,
                                   !.icon["laser"] = "unlock"]
                   ELSE [st EXCEPT !.armed["laser"] = FALSE,
                                   !.icon["laser"] = "lock"]
             data == IF ~st.armed["laser"] THEN "ARM_LASER"
                                           ELSE "DISARM_LASER"
             s2 == Post(s1, data, outcome)
         IN  IF Raises(outcome)
             THEN add_error(s2, "Failed to arm or disarm laser",
                            ErrorText(outcome))
             ELSE s2

(***************************************************************************)
(* set_active_lever.  The local name data is bound only by the two         *)
(* branches; for any other selection the read of data in the argument list *)
(* of requests.post raises UnboundLocalError inside the try block, before  *)
(* any request is made, and the except clause records it.                  *)
(***************************************************************************)
Unbound == "<unbound>"

\* set_active_lever reading data before the try block is entered.
set_active_lever_unguarded(st, connected, new, outcome) ==
    IF ~connected THEN add_response(st, NotConnectedMessage)
    ELSE LET data == IF new = "LH Lever" THEN "ACTIVE_LEVER_LH"
                     ELSE IF new = "RH Lever" THEN "ACTIVE_LEVER_RH"
                     ELSE Unbound
         IN  IF data = Unbound
             THEN [st EXCEPT !.raised = TRUE]
             ELSE LET s1 == Post(st, data, outcome)
                  IN  IF Raises(outcome)
                      THEN add_error(s1, "Failed to set active lever",
                                     ErrorText(outcome))
                      ELSE s1

set_active_lever(st, connected, new, outcome) ==
    IF ~connected THEN add_response(st, NotConnectedMessage)
    ELSE LET data == IF new = "LH Lever" THEN "ACTIVE_LEVER_LH"
                     ELSE IF new = "RH Lever" THEN "ACTIVE_LEVER_RH"
                     ELSE Unbound
         IN  IF data = Unbound
             THEN add_error(st, "Failed to set active lever",
                            "UnboundLocalError")
             ELSE LET s1 == Post(st, data, outcome)
                  IN  IF Raises(outcome)
                      THEN add_error(s1, "Failed to set active lever",
                                     ErrorText(outcome))
                      ELSE s1

(***************************************************************************)
(* The configuration senders.  outs[k] is the outcome of the k-th request  *)
(* of the call; the first request that raises leaves the try block.        *)
(***************************************************************************)
\* send_cue_configuration with one try block around each request.
send_cue_configuration_each(st, connected, frequency, duration, outs) ==
    IF ~connected THEN add_response(st, NotConnectedMessage)
    ELSE LET s1 == Post(st, "SET_FREQUENCY_CS:" \o ToString(frequency),
                        outs[1])
             s2 == IF Raises(outs[1])
                   THEN add_error(s1, "Failed to send CS configuration",
                                  ErrorText(outs[1]))
                   ELSE s1
             s3 == Post(s2, "SET_DURATION_CS:" \o ToString(duration),
                        outs[2])
         IN  IF Raises(outs[2])
             THEN add_error(s3, "Failed to send CS configuration",
                            ErrorText(outs[2]))
             ELSE s3

send_cue_configuration(st, connected, frequency, duration, outs) ==
    IF ~connected THEN add_response(st, NotConnectedMessage)
    ELSE LET s1 == Post(st, "SET_FREQUENCY_CS:" \o ToString(frequency),
                        outs[1])
             s2 == Post(s1, "SET_DURATION_CS:" \o ToString(duration),
                        outs[2])
         IN  IF Raises(outs[1])
             THEN add_error(s1, "Failed to send CS configuration",
                            ErrorText(outs[1]))
             ELSE IF Raises(outs[2])
             THEN add_error(s2, "Failed to send CS configuration",
                            ErrorText(outs[2]))
             ELSE s2

\* A mode sent as the widget holds it.
UpperAsIs(mode) == mode

\* str.upper() on the options of stim_mode_widget.
Upper(mode) ==
    CASE mode = "Cycle" -> "CYCLE"
      [] mode = "Active-Press" -> "ACTIVE-PRESS"

\* send_laser_configuration without the connection check.
send_laser_configuration_open(st, connected, mode, duration, frequency, outs) ==
    LET s1 == Post(st, "LASER_STIM_MODE_" \o Upper(mode), outs[1])
        s2 == Post(s1, "LASER_DURATION:" \o ToString(duration), outs[2])
        s3 == Post(s2, "LASER_FREQUENCY:" \o ToString(frequency), outs[3])
    IN  IF Raises(outs[1])
        THEN add_error(s1, "Failed to send laser configuration",
                       ErrorText(outs[1]))
        ELSE IF Raises(outs[2])
        THEN add_error(s2, "Failed to send laser configuration",
                       ErrorText(outs[2]))
        ELSE IF Raises(outs[3])
        THEN add_error(s3, "Failed to send laser configuration",
                       ErrorText(outs[3]))
        ELSE s3

send_laser_configuration(st, connected, mode, duration, frequency, outs) ==
    IF ~connected THEN add_response(st, NotConnectedMessage)
    ELSE LET s1 == Post(st, "LASER_STIM_MODE_" \o Upper(mode), outs[1])
             s2 == Post(s1, "LASER_DURATION:" \o ToString(duration), outs[2])
             s3 == Post(s2, "LASER_FREQUENCY:" \o ToString(frequency),
                        outs[3])
         IN  IF Raises(outs[1])
             THEN add_error(s1, "Failed to send laser configuration",
                            ErrorText(outs[1]))
             ELSE IF Raises(outs[2])
             THEN add_error(s2, "Failed to send laser configuration",
                            ErrorText(outs[2]))
             ELSE IF Raises(outs[3])
             THEN add_error(s3, "Failed to send laser configuration",
                            ErrorText(outs[3]))
             ELSE s3

(***************************************************************************)
(* arm_devices and the dispatch table it reads.                            *)
(***************************************************************************)
hardware_components ==
    ("LH Lever" :> "arm_lh_lever") @@
    ("RH Lever" :> "arm_rh_lever") @@
    ("Cue" :> "arm_cs") @@
    ("Pump" :> "arm_pump") @@
    ("Lick Circuit" :> "arm_lick_circuit") @@
    ("Laser" :> "arm_laser") @@
    ("Imaging Timestamp Receptor" :> "arm_frames")

\* Calling the bound method a table entry holds.
CallHandler(handler, st, connected, outcome) ==
    CASE handler = "arm_lh_lever" -> arm_lh_lever(st, connected, outcome)
      [] handler = "arm_rh_lever" -> arm_rh_lever(st, connected, outcome)
      [] handler = "arm_cs" -> arm_cs(st, connected, outcome)
      [] handler = "arm_pump" -> arm_pump(st, connected, outcome)
      [] handler = "arm_lick_circuit" ->
             arm_lick_circuit(st, connected, outcome)
      [] handler = "arm_laser" -> arm_laser(st, connected, outcome)
      [] handler = "arm_frames" -> arm_frames(st, connected, outcome)

\* The loop of arm_devices from position i of the list; outs[i] is the
\* outcome of the request the i-th entry's handler makes, if it makes one.
RECURSIVE arm_devices_from(_, _, _, _, _)
arm_devices_from(st, connected, devices, outs, i) ==
    IF i > Len(devices) THEN st
    ELSE LET device == devices[i]
             s1 == IF device \in DOMAIN hardware_components
                   THEN CallHandler(hardware_components[device], st,
                                    connected, outs[i])
                   ELSE st
         IN  arm_devices_from(s1, connected, devices, outs, i + 1)

arm_devices(st, connected, devices, outs) ==
    arm_devices_from(st, connected, devices, outs, 1)

(***************************************************************************)
(* plot_square_wave.  The samples are computed in IEEE-754 binary64, as    *)
(* numpy and Python compute them.  A positive double is a record           *)
(* [m |-> mantissa, e |-> exponent] of value m * 2^e with                  *)
(* 2^52 <= m < 2^53; zero has m = 0.  A mantissa, or any other integer     *)
(* wider than the integers of the checker, is a tuple of four 20-bit       *)
(* limbs, least significant first.                                         *)
(***************************************************************************)
Base == 1048576

Pow2(k) == 2 ^ k

BigZero == <<0, 0, 0, 0>>

\* 2^k as limbs, for k < 80.
BigPow2(k) == [j \in 1..4 |-> IF (j - 1) = k \div 20 THEN Pow2(k % 20) ELSE 0]

\* -1, 0 or 1 as a < b, a = b or a > b.
BigCmp(a, b) ==
    IF a[4] # b[4] THEN (IF a[4] < b[4] THEN -1 ELSE 1)
    ELSE IF a[3] # b[3] THEN (IF a[3] < b[3] THEN -1 ELSE 1)
    ELSE IF a[2] # b[2] THEN (IF a[2] < b[2] THEN -1 ELSE 1)
    ELSE IF a[1] # b[1] THEN (IF a[1] < b[1] THEN -1 ELSE 1)
    ELSE 0

\* a - b for a >= b.
BigSub(a, b) ==
    LET d1 == a[1] - b[1]
        w1 == IF d1 < 0 THEN 1 ELSE 0
        d2 == a[2] - b[2] - w1
        w2 == IF d2 < 0 THEN 1 ELSE 0
        d3 == a[3] - b[3] - w2
        w3 == IF d3 < 0 THEN 1 ELSE 0
        d4 == a[4] - b[4] - w3
    IN  <<d1 + w1 * Base, d2 + w2 * Base, d3 + w3 * Base, d4>>

\* a * k for 0 <= k < 1024 and a < 2^60.
BigMulSmall(a, k) ==
    LET p1 == a[1] * k
        p2 == a[2] * k + p1 \div Base
        p3 == a[3] * k + p2 \div Base
        p4 == a[4] * k + p3 \div Base
    IN  <<p1 % Base, p2 % Base, p3 % Base, p4>>

\* Quotient and remainder of a by n, 0 < n < 1024.
BigDivSmall(a, n) ==
    LET x4 == a[4]
        x3 == (x4 % n) * Base + a[3]
        x2 == (x3 % n) * Base + a[2]
        x1 == (x2 % n) * Base + a[1]
    IN  [q |-> <<x1 \div n, x2 \div n, x3 \div n, x4 \div n>>, r |-> x1 % n]

\* a + 1.
BigInc(a) ==
    IF a[1] + 1 < Base THEN <<a[1] + 1, a[2], a[3], a[4]>>
    ELSE IF a[2] + 1 < Base THEN <<0, a[2] + 1, a[3], a[4]>>
    ELSE IF a[3] + 1 < Base THEN <<0, 0, a[3] + 1, a[4]>>
    ELSE <<0, 0, 0, a[4] + 1>>

\* floor(a / 2^s) for 0 <= s < 20.
BigShr(a, s) ==
    LET lo == Pow2(s)
        hi == Pow2(20 - s)
    IN  <<a[1] \div lo + (a[2] % lo) * hi,
          a[2] \div lo + (a[3] % lo) * hi,
          a[3] \div lo + (a[4] % lo) * hi,
          a[4] \div lo>>

\* a / 2^s rounded to the nearest integer, ties to the even one.
BigShrRound(a, s) ==
    IF s = 0 THEN a
    ELSE LET q == BigShr(a, s)
             dropped == a[1] % Pow2(s)
             half == Pow2(s - 1)
         IN  IF dropped > half \/ (dropped = half /\ q[1] % 2 = 1)
             THEN BigInc(q) ELSE q

\* The double nearest to p * 2^e, for an integer p with 2^52 <= p < 2^64.
RoundToDouble(p, e) ==
    LET s == CHOOSE k \in 0..11 :
                 /\ BigCmp(p, BigPow2(53 + k)) < 0
                 /\ k > 0 => BigCmp(p, BigPow2(52 + k)) >= 0
        m == BigShrRound(p, s)
    IN  IF m = BigPow2(53) THEN [m |-> BigPow2(52), e |-> e + s + 1]
        ELSE [m |-> m, e |-> e + s]

\* The least k with 2^k >= n.
RECURSIVE CeilLog2(_)
CeilLog2(n) == IF n <= 1 THEN 0 ELSE 1 + CeilLog2((n + 1) \div 2)

\* The double 1.0 / n for an integer 1 <= n < 1024: the quotient
\* 2^(52+k) / n lies in [2^52, 2^53) and is rounded to nearest (a tie
\* cannot occur: the remainder is zero whenever n is a power of two).
Reciprocal(n) ==
    LET k == CeilLog2(n)
        d == BigDivSmall(BigPow2(52 + k), n)
    IN  [m |-> IF 2 * d.r > n THEN BigInc(d.q) ELSE d.q, e |-> -(52 + k)]

\* The double i * x for an integer 0 <= i < 1024 and a double x.
TimesInt(i, x) ==
    IF i = 0 THEN [m |-> BigZero, e |-> 0]
    ELSE RoundToDouble(BigMulSmall(x.m, i), x.e)

One == [m |-> BigPow2(52), e |-> -52]

\* np.linspace(0, total_duration, 1000)[i]: arange(1000) * step with
\* step = 1.0 / 999, and the last sample set to the stop value.
linspace(i) ==
    IF i = 999 THEN One ELSE TimesInt(i, Reciprocal(999))

\* (2^d * r) mod mp by d doublings, r < mp.
RECURSIVE FmodLoop(_, _, _)
FmodLoop(r, mp, d) ==
    IF d = 0 THEN r
    ELSE LET r2 == BigMulSmall(r, 2)
         IN  FmodLoop(IF BigCmp(r2, mp) >= 0 THEN BigSub(r2, mp) ELSE r2,
                      mp, d - 1)

\* (time_point % period) < (period / 2) for doubles time_point >= 0 and
\* period > 0.  The remainder of two doubles is exact: with
\* d = time_point.e - period.e >= 0 it is r * 2^period.e for
\* r = (time_point.m * 2^d) mod period.m, and period / 2 is
\* period.m * 2^(period.e - 1).  For d < 0 the remainder is time_point.
ModLessThanHalf(time_point, period) ==
    LET d == time_point.e - period.e
    IN  IF time_point.m = BigZero THEN TRUE
        ELSE IF d <= -2 THEN TRUE
        ELSE IF d = -1 THEN BigCmp(time_point.m, period.m) < 0
        ELSE LET r0 == IF BigCmp(time_point.m, period.m) >= 0
                       THEN BigSub(time_point.m, period.m)
                       ELSE time_point.m
                 r == FmodLoop(r0, period.m, d)
             IN  BigCmp(BigMulSmall(r, 2), period.m) < 0

\* Number of samples of the plot.
NumSamples == 1000

\* square_wave of plot_square_wave(frequency); entry i + 1 of the sequence
\* is square_wave[i] of the code.
plot_square_wave(frequency) ==
    IF frequency = 1
    THEN [j \in 1..NumSamples |-> IF (j - 1) >= 1 /\ (j - 1) < 999
                                  THEN 1 ELSE 0]
    ELSE LET period == Reciprocal(frequency)
         IN  [j \in 1..NumSamples |->
                 IF ModLessThanHalf(linspace(j - 1), period) THEN 1 ELSE 0]

(***************************************************************************)
(* Values the operator can give the inputs of the model.                   *)
(***************************************************************************)
\* event.new of the menu button: its two items and a value outside them.
Selections == {"LH Lever", "RH Lever", "Both Levers"}

\* Names passed to arm_devices: keys of the table and a name outside it.
DeviceNames == {"Pump", "Laser", "Unknown"}

DeviceLists == UNION {[1..n -> DeviceNames] : n \in 0..MaxDevices}

\* <<cue frequency, cue duration>>: the initial values and another setting.
CueSettings == {<<8000, 1600>>, <<50, 0>>}

\* <<stim mode, stim duration, stim frequency>>, likewise.
LaserSettings == {<<"Cycle", 30, 20>>, <<"Active-Press", 1, 100>>}

(***************************************************************************)
(* The state after HardwareTab.__init__.                                   *)
(***************************************************************************)
Init ==
    /\ api_connected = FALSE
    /\ armed = [d \in Devices |-> FALSE]
    /\ icon = [d \in Devices |-> "lock"]
    /\ cue_frequency = 8000
    /\ cue_duration = 1600
    /\ stim_mode = "Cycle"
    /\ stim_frequency = 20
    /\ stim_duration = 30
    /\ posts = <<>>
    /\ responses = <<>>
    /\ errors = <<>>
    /\ calls = <<>>
    /\ square_wave = <<>>

\* The record of one invocation: what it was called with, the state it
\* found and the state it left.
CallRecord(handler, arg, r) ==
    [handler |-> handler, arg |-> arg, connected |-> api_connected,
     pre_armed |-> armed, pre_icon |-> icon,
     post_armed |-> r.armed, post_icon |-> r.icon,
     posts_from |-> Len(posts), posts_to |-> Len(r.posts),
     responses_from |-> Len(responses), responses_to |-> Len(r.responses),
     errors_from |-> Len(errors), errors_to |-> Len(r.errors),
     raised |-> r.raised]

\* A handler ran to its end and left the controller in state r; bound is
\* the number of invocations a behaviour may hold.
Commit(bound, handler, arg, r) ==
    /\ Len(calls) < bound
    /\ armed' = r.armed
    /\ icon' = r.icon
    /\ posts' = r.posts
    /\ responses' = r.responses
    /\ errors' = r.errors
    /\ calls' = Append(calls, CallRecord(handler, arg, r))
    /\ UNCHANGED <<api_connected, cue_frequency, cue_duration, stim_mode,
                   stim_frequency, stim_duration, square_wave>>

(***************************************************************************)
(* The callbacks the widgets are bound to in __init__, and arm_devices,    *)
(* which the container calls.                                              *)
(***************************************************************************)
OnSetActiveLever ==
    \E new \in Selections, outcome \in Outcomes :
        Commit(MaxCalls, "set_active_lever", <<new>>,
               set_active_lever(Cur, api_connected, new, outcome))

OnArmRhLever(bound) ==
    \E outcome \in Outcomes :
        Commit(bound, "arm_rh_lever", <<>>,
               arm_rh_lever(Cur, api_connected, outcome))

OnArmLhLever(bound) ==
    \E outcome \in Outcomes :
        Commit(bound, "arm_lh_lever", <<>>,
               arm_lh_lever(Cur, api_connected, outcome))

OnArmCs(bound) ==
    \E outcome \in Outcomes :
        Commit(bound, "arm_cs", <<>>, arm_cs(Cur, api_connected, outcome))

OnArmPump(bound) ==
    \E outcome \in Outcomes :
        Commit(bound, "arm_pump", <<>>,
               arm_pump(Cur, api_connected, outcome))

OnArmLickCircuit(bound) ==
    \E outcome \in Outcomes :
        Commit(bound, "arm_lick_circuit", <<>>,
               arm_lick_circuit(Cur, api_connected, outcome))

OnArmFrames(bound) ==
    \E outcome \in Outcomes :
        Commit(bound, "arm_frames", <<>>,
               arm_frames(Cur, api_connected, outcome))

OnArmLaser(bound) ==
    \E outcome \in Outcomes :
        Commit(bound, "arm_laser", <<>>,
               arm_laser(Cur, api_connected, outcome))

\* The outcomes of the n requests a configuration sender can make: all
\* succeed (fail = 0) or request fail is the first to fail, in the way kind.
FirstFailure(n, fail, kind) ==
    [k \in 1..n |-> IF k = fail THEN kind ELSE "2xx"]

OnSendCueConfiguration(bound) ==
    \E fail \in 0..2, kind \in Outcomes \ {"2xx"} :
        Commit(bound, "send_cue_configuration", <<>>,
               send_cue_configuration(Cur, api_connected, cue_frequency,
                                      cue_duration,
                                      FirstFailure(2, fail, kind)))

OnSendLaserConfiguration(bound) ==
    \E fail \in 0..3, kind \in Outcomes \ {"2xx"} :
        Commit(bound, "send_laser_configuration", <<>>,
               send_laser_configuration(Cur, api_connected, stim_mode,
                                        stim_duration, stim_frequency,
                                        FirstFailure(3, fail, kind)))

ArmDevices ==
    \E devices \in DeviceLists :
        \E outs \in [1..Len(devices) -> Outcomes] :
            Commit(MaxBatches, "arm_devices", devices,
                   arm_devices(Cur, api_connected, devices, outs))

(***************************************************************************)
(* The environment: the base dashboard opens and closes the connection,    *)
(* the operator edits the input widgets.                                   *)
(***************************************************************************)
Connect ==
    /\ ~api_connected
    /\ api_connected' = TRUE
    /\ UNCHANGED <<armed, icon, cue_frequency, cue_duration, stim_mode,
                   stim_frequency, stim_duration, posts, responses, errors,
                   calls, square_wave>>

Disconnect ==
    /\ api_connected
    /\ api_connected' = FALSE
    /\ UNCHANGED <<armed, icon, cue_frequency, cue_duration, stim_mode,
                   stim_frequency, stim_duration, posts, responses, errors,
                   calls, square_wave>>

SetCueWidgets ==
    \E setting \in CueSettings :
        /\ setting # <<cue_frequency, cue_duration>>
        /\ cue_frequency' = setting[1]
        /\ cue_duration' = setting[2]
        /\ UNCHANGED <<api_connected, armed, icon, stim_mode, stim_frequency,
                       stim_duration, posts, responses, errors, calls,
                       square_wave>>

SetLaserWidgets ==
    \E setting \in LaserSettings :
        /\ setting # <<stim_mode, stim_duration, stim_frequency>>
        /\ stim_mode' = setting[1]
        /\ stim_duration' = setting[2]
        /\ stim_frequency' = setting[3]
        /\ UNCHANGED <<api_connected, armed, icon, cue_frequency,
                       cue_duration, posts, responses, errors, calls,
                       square_wave>>

\* The operator uses the ten controls, the widgets holding their initial
\* values.
Next ==
    \/ OnSetActiveLever
    \/ OnArmRhLever(MaxCalls)
    \/ OnArmLhLever(MaxCalls)
    \/ OnArmCs(MaxCalls)
    \/ OnArmPump(MaxCalls)
    \/ OnArmLickCircuit(MaxCalls)
    \/ OnArmFrames(MaxCalls)
    \/ OnArmLaser(MaxCalls)
    \/ OnSendCueConfiguration(MaxCalls)
    \/ OnSendLaserConfiguration(MaxCalls)
    \/ Connect
    \/ Disconnect

Spec == Init /\ [][Next]_vars

\* The operator edits the configuration widgets and sends them.
NextConfig ==
    \/ OnSendCueConfiguration(MaxSends)
    \/ OnSendLaserConfiguration(MaxSends)
    \/ SetCueWidgets
    \/ SetLaserWidgets
    \/ Connect
    \/ Disconnect

SpecConfig == Init /\ [][NextConfig]_vars

\* The operator uses only the seven toggles.
NextArm ==
    \/ OnArmRhLever(MaxToggles)
    \/ OnArmLhLever(MaxToggles)
    \/ OnArmCs(MaxToggles)
    \/ OnArmPump(MaxToggles)
    \/ OnArmLickCircuit(MaxToggles)
    \/ OnArmFrames(MaxToggles)
    \/ OnArmLaser(MaxToggles)
    \/ Connect
    \/ Disconnect

SpecArm == Init /\ [][NextArm]_vars

\* The container arms devices in batches through arm_devices.
NextBatch ==
    \/ ArmDevices
    \/ Connect
    \/ Disconnect

SpecBatch == Init /\ [][NextBatch]_vars

(***************************************************************************)
(* plot_square_wave as a function of its input: the frequency slider holds *)
(* any value of its range and the bound plot is computed once.             *)
(***************************************************************************)
MinFrequency == 1
MaxFrequency == 100

InitWave ==
    /\ api_connected = FALSE
    /\ armed = [d \in Devices |-> FALSE]
    /\ icon = [d \in Devices |-> "lock"]
    /\ cue_frequency = 8000
    /\ cue_duration = 1600
    /\ stim_mode = "Cycle"
    /\ stim_frequency \in MinFrequency..MaxFrequency
    /\ stim_duration = 30
    /\ posts = <<>>
    /\ responses = <<>>
    /\ errors = <<>>
    /\ calls = <<>>
    /\ square_wave = <<>>

PlotSquareWave ==
    /\ square_wave = <<>>
    /\ square_wave' = plot_square_wave(stim_frequency)
    /\ UNCHANGED <<api_connected, armed, icon, cue_frequency, cue_duration,
                   stim_mode, stim_frequency, stim_duration, posts,
                   responses, errors, calls>>

NextWave == PlotSquareWave

SpecWave == InitWave /\ [][NextWave]_vars

(***************************************************************************)
(* The ten callbacks together with the bound plot: the panel renders       *)
(* plot_square_wave for the value the frequency slider holds, which in     *)
(* these behaviours is its initial value, so the samples are computed      *)
(* once.                                                                   *)
(***************************************************************************)
InitialFrequency == 20

InitialPlot == plot_square_wave(InitialFrequency)

RenderPlot ==
    /\ square_wave = <<>>
    /\ stim_frequency = InitialFrequency
    /\ square_wave' = InitialPlot
    /\ UNCHANGED <<api_connected, armed, icon, cue_frequency, cue_duration,
                   stim_mode, stim_frequency, stim_duration, posts,
                   responses, errors, calls>>

NextFrame ==
    \/ Next
    \/ RenderPlot

SpecFrame == Init /\ [][NextFrame]_vars

(***************************************************************************)
(* Vocabulary of the properties.                                           *)
(***************************************************************************)
ArmHandlers == {"arm_rh_lever", "arm_lh_lever", "arm_cs", "arm_pump",
                "arm_lick_circuit", "arm_frames", "arm_laser"}

ConfigHandlers == {"send_cue_configuration", "send_laser_configuration"}

TenHandlers == ArmHandlers \cup ConfigHandlers \cup {"set_active_lever"}

\* The flag a toggle handler owns.
FlagOf(handler) ==
    CASE handler = "arm_rh_lever" -> "rh_lever"
      [] handler = "arm_lh_lever" -> "lh_lever"
      [] handler = "arm_cs" -> "cue"
      [] handler = "arm_pump" -> "pump"
      [] handler = "arm_lick_circuit" -> "lick_circuit"
      [] handler = "arm_frames" -> "microscope"
      [] handler = "arm_laser" -> "laser"

\* The <DEVICE> part of the commands of a toggle handler.
DeviceOf(handler) ==
    CASE handler = "arm_rh_lever" -> "LEVER_RH"
      [] handler = "arm_lh_lever" -> "LEVER_LH"
      [] handler = "arm_cs" -> "CS"
      [] handler = "arm_pump" -> "PUMP"
      [] handler = "arm_lick_circuit" -> "LICK_CIRCUIT"
      [] handler = "arm_frames" -> "FRAME"
      [] handler = "arm_laser" -> "LASER"

\* The label of the error entries of a handler.
LabelOf(handler) ==
    CASE handler = "arm_rh_lever" -> "Failed to arm or disarm RH lever"
      [] handler = "arm_lh_lever" -> "Failed to arm or disarm LH lever"
      [] handler = "arm_cs" -> "Failed to arm or disarm CS"
      [] handler = "arm_pump" -> "Failed to arm or disarm pump"
      [] handler = "arm_lick_circuit" -> "Failed to arm or disarm lick circuit"
      [] handler = "arm_frames" -> "Failed to arm or disarm 2P"
      [] handler = "arm_laser" -> "Failed to arm or disarm laser"
      [] handler = "send_cue_configuration" ->
             "Failed to send CS configuration"
      [] handler = "send_laser_configuration" ->
             "Failed to send laser configuration"
      [] handler = "set_active_lever" -> "Failed to set active lever"

IconOf(flag) == IF flag THEN "unlock" ELSE "lock"

CallIds == 1..Len(calls)

\* What invocation c added to the three logs.
PostsOf(c) == SubSeq(posts, c.posts_from + 1, c.posts_to)
CommandsOf(c) == [k \in 1..Len(PostsOf(c)) |-> PostsOf(c)[k].command]
ResponsesOf(c) == SubSeq(responses, c.responses_from + 1, c.responses_to)
ErrorsOf(c) == SubSeq(errors, c.errors_from + 1, c.errors_to)

(***************************************************************************)
(* C1.  An invocation of any of the ten handlers made while api_connected  *)
(* is false issues no POST, records exactly one message through            *)
(* add_response (the request to connect), records no error entry and       *)
(* leaves every armed flag and every icon as it found them.                *)
(***************************************************************************)
C1_NotConnectedNoOp ==
    \A i \in CallIds :
        LET c == calls[i]
        IN  (c.handler \in TenHandlers /\ ~c.connected) =>
                /\ PostsOf(c) = <<>>
                /\ ResponsesOf(c) = <<NotConnectedMessage>>
                /\ ErrorsOf(c) = <<>>
                /\ c.post_armed = c.pre_armed
                /\ c.post_icon = c.pre_icon

\* A handler was invoked without connection while a device was armed.
C1_Witness ==
    \E i \in CallIds :
        /\ ~calls[i].connected
        /\ calls[i].handler \in TenHandlers
        /\ \E d \in Devices : calls[i].pre_armed[d]
        /\ Len(responses) = calls[i].responses_from + 1

(***************************************************************************)
(* C2.  In every reachable state each device's armed flag agrees with the  *)
(* icon of its toggle: the flag is true exactly when the icon is "unlock"  *)
(* and false exactly when it is "lock".                                    *)
(***************************************************************************)
C2_FlagAgreesWithIcon ==
    \A d \in Devices :
        /\ armed[d] <=> icon[d] = "unlock"
        /\ ~armed[d] <=> icon[d] = "lock"

\* A device was armed and disarmed again, one of the requests having failed.
C2_Witness ==
    /\ errors # <<>>
    /\ \E i \in CallIds :
           /\ calls[i].handler \in ArmHandlers
           /\ calls[i].pre_armed[FlagOf(calls[i].handler)]
           /\ ~calls[i].post_armed[FlagOf(calls[i].handler)]

(***************************************************************************)
(* C3.  Pairs of successive invocations of one toggle handler, both made   *)
(* while connected.                                                        *)
(***************************************************************************)
TogglePairs ==
    {i \in CallIds :
        /\ i + 1 \in CallIds
        /\ calls[i].handler \in ArmHandlers
        /\ calls[i + 1].handler = calls[i].handler
        /\ calls[i].connected
        /\ calls[i + 1].connected}

\* The claim as stated: the two invocations restore the flag and the icon
\* and issue ARM_<DEVICE> and then DISARM_<DEVICE>, whatever the state the
\* first invocation found.
C3_ArmThenDisarm ==
    \A i \in TogglePairs :
        LET h == calls[i].handler
            d == FlagOf(h)
        IN  /\ calls[i + 1].post_armed[d] = calls[i].pre_armed[d]
            /\ calls[i + 1].post_icon[d] = calls[i].pre_icon[d]
            /\ CommandsOf(calls[i]) \o CommandsOf(calls[i + 1])
                   = <<"ARM_" \o DeviceOf(h), "DISARM_" \o DeviceOf(h)>>

\* C3 as amended: the two invocations restore the flag and the icon and
\* issue exactly one ARM_<DEVICE> and one DISARM_<DEVICE>; ARM comes first
\* when the device was disarmed before the pair, DISARM first when it was
\* armed.
C3_ToggleTwiceRestores ==
    \A i \in TogglePairs :
        LET h == calls[i].handler
            d == FlagOf(h)
        IN  /\ calls[i + 1].post_armed[d] = calls[i].pre_armed[d]
            /\ calls[i + 1].post_icon[d] = calls[i].pre_icon[d]
            /\ CommandsOf(calls[i]) \o CommandsOf(calls[i + 1])
                   = IF ~calls[i].pre_armed[d]
                     THEN <<"ARM_" \o DeviceOf(h), "DISARM_" \o DeviceOf(h)>>
                     ELSE <<"DISARM_" \o DeviceOf(h), "ARM_" \o DeviceOf(h)>>

\* A pair of toggles that found the device armed.
C3_Witness ==
    \E i \in TogglePairs : calls[i].pre_armed[FlagOf(calls[i].handler)]

(***************************************************************************)
(* C4.  An invocation of a toggle handler made while connected issues      *)
(* exactly one POST; its command is ARM_<DEVICE> when the handler's flag   *)
(* was false before and DISARM_<DEVICE> when it was true, <DEVICE> being   *)
(* the handler's own device; the flag afterwards is the negation of the    *)
(* flag before.                                                            *)
(***************************************************************************)
C4_OnePostPerToggle ==
    \A i \in CallIds :
        LET c == calls[i]
        IN  (c.handler \in ArmHandlers /\ c.connected) =>
                LET d == FlagOf(c.handler)
                IN  /\ CommandsOf(c) =
                           <<IF ~c.pre_armed[d]
                             THEN "ARM_" \o DeviceOf(c.handler)
                             ELSE "DISARM_" \o DeviceOf(c.handler)>>
                    /\ c.post_armed[d] = ~c.pre_armed[d]

\* A connected toggle that found its device armed and sent DISARM.
C4_Witness ==
    \E i \in CallIds :
        /\ calls[i].handler \in ArmHandlers
        /\ calls[i].connected
        /\ calls[i].pre_armed[FlagOf(calls[i].handler)]
        /\ Len(PostsOf(calls[i])) = 1

(***************************************************************************)
(* C5.  When the POST of a connected toggle fails (non-2xx status or       *)
(* transport exception) the flag and the icon keep the toggled value and   *)
(* exactly one error entry, with the handler's label, is recorded.         *)
(***************************************************************************)
C5_NoRollbackOnFailure ==
    \A i \in CallIds :
        LET c == calls[i]
        IN  (/\ c.handler \in ArmHandlers
             /\ c.connected
             /\ \E k \in 1..Len(PostsOf(c)) : PostsOf(c)[k].outcome # "2xx") =>
                LET d == FlagOf(c.handler)
                IN  /\ c.post_armed[d] = ~c.pre_armed[d]
                    /\ c.post_icon[d] = IconOf(~c.pre_armed[d])
                    /\ Len(ErrorsOf(c)) = 1
                    /\ ErrorsOf(c)[1].label = LabelOf(c.handler)

\* A device whose flag is true although no ARM command for it was ever
\* delivered with success.
C5_Witness ==
    \E h \in ArmHandlers :
        /\ armed[FlagOf(h)]
        /\ \A k \in 1..Len(posts) :
               posts[k].command = "ARM_" \o DeviceOf(h) =>
                   posts[k].outcome # "2xx"
        /\ \E k \in 1..Len(posts) :
               /\ posts[k].command = "ARM_" \o DeviceOf(h)
               /\ posts[k].outcome = "non2xx"

(***************************************************************************)
(* C6.  arm_devices(devices), called while connected, leaves armed every   *)
(* device whose name in the list is a key of hardware_components, having   *)
(* sent ARM_<DEVICE> for it, whatever the list and the flags before; a     *)
(* name outside the table causes no POST, no message and no change.        *)
(***************************************************************************)
KnownEntries(devices) ==
    {k \in 1..Len(devices) : devices[k] \in DOMAIN hardware_components}

C6_ArmDevicesArms ==
    \A i \in CallIds :
        LET c == calls[i]
        IN  (c.handler = "arm_devices" /\ c.connected) =>
                /\ \A k \in KnownEntries(c.arg) :
                       LET h == hardware_components[c.arg[k]]
                       IN  /\ c.post_armed[FlagOf(h)]
                           /\ \E n \in 1..Len(PostsOf(c)) :
                                  CommandsOf(c)[n] = "ARM_" \o DeviceOf(h)
                /\ Len(PostsOf(c)) = Cardinality(KnownEntries(c.arg))
                /\ ResponsesOf(c) = <<>>
                /\ \A d \in Devices :
                       (\A k \in KnownEntries(c.arg) :
                            FlagOf(hardware_components[c.arg[k]]) # d) =>
                           c.post_armed[d] = c.pre_armed[d]

(***************************************************************************)
(* C7.  In a connected send_cue_configuration or send_laser_configuration  *)
(* the first POST that fails is the last POST of the call: every POST      *)
(* before it was sent and succeeded, none follows it, and exactly one      *)
(* error entry, with the handler's label, is recorded for the call.        *)
(***************************************************************************)
C7_FirstFailureAborts ==
    \A i \in CallIds :
        LET c == calls[i]
            ps == PostsOf(c)
        IN  (c.handler \in ConfigHandlers /\ c.connected) =>
                /\ \A k \in 1..(Len(ps) - 1) : ps[k].outcome = "2xx"
                /\ (\E k \in 1..Len(ps) : ps[k].outcome # "2xx") =>
                       /\ Len(ErrorsOf(c)) = 1
                       /\ ErrorsOf(c)[1].label = LabelOf(c.handler)

\* The second of the two cue requests failed: the first was sent, one
\* error entry was recorded.
C7_Witness ==
    \E i \in CallIds :
        /\ calls[i].handler = "send_cue_configuration"
        /\ calls[i].connected
        /\ Len(PostsOf(calls[i])) = 2
        /\ PostsOf(calls[i])[1].outcome = "2xx"
        /\ PostsOf(calls[i])[2].outcome = "non2xx"
        /\ Len(ErrorsOf(calls[i])) = 1

(***************************************************************************)
(* C8.  No exception leaves a handler, whatever the selection, the         *)
(* connection state and the outcome of the requests; a failure (a request  *)
(* that failed, or a selection that is neither "LH Lever" nor "RH Lever")  *)
(* shows as one entry of the error log.                                    *)
(***************************************************************************)
Failed(c) ==
    \/ \E k \in 1..Len(PostsOf(c)) : PostsOf(c)[k].outcome # "2xx"
    \/ /\ c.handler = "set_active_lever"
       /\ c.connected
       /\ c.arg[1] \notin {"LH Lever", "RH Lever"}

C8_NoExceptionEscapes ==
    \A i \in CallIds :
        LET c == calls[i]
        IN  (c.handler \in TenHandlers) =>
                /\ ~c.raised
                /\ Failed(c) =>
                       /\ Len(ErrorsOf(c)) = 1
                       /\ ErrorsOf(c)[1].label = LabelOf(c.handler)

\* set_active_lever ran connected with a selection outside the menu: no
\* request was made and the unbound name was recorded as an error.
C8_Witness ==
    \E i \in CallIds :
        /\ calls[i].handler = "set_active_lever"
        /\ calls[i].connected
        /\ calls[i].arg = <<"Both Levers">>
        /\ PostsOf(calls[i]) = <<>>
        /\ ErrorsOf(calls[i]) = <<[label |-> "Failed to set active lever",
                                   detail |-> "UnboundLocalError"]>>

(***************************************************************************)
(* C9.  plot_square_wave(frequency) has 1000 samples at the times          *)
(* t_i = i/999; for frequency 1 exactly the samples 1..998 are high; for   *)
(* any other frequency sample i is high iff                                *)
(* (t_i mod (1/frequency)) < 1/(2*frequency).  With t_i = i/999 the        *)
(* remainder is ((i*frequency) mod 999) / (999*frequency), so the          *)
(* condition is 2 * ((i*frequency) mod 999) < 999.                         *)
(***************************************************************************)
HighInClaim(frequency, i) ==
    IF frequency = 1 THEN i \in 1..998
    ELSE 2 * ((i * frequency) % 999) < 999

C9_SquareWave ==
    square_wave # <<>> =>
        /\ Len(square_wave) = 1000
        /\ \A i \in 0..999 :
               /\ square_wave[i + 1] \in {0, 1}
               /\ square_wave[i + 1] = 1 <=> HighInClaim(stim_frequency, i)

(***************************************************************************)
(* C10.  A connected send_cue_configuration whose requests all succeed     *)
(* issues SET_FREQUENCY_CS:<cue frequency> and then                        *)
(* SET_DURATION_CS:<cue duration>; a connected send_laser_configuration    *)
(* whose requests all succeed issues LASER_STIM_MODE_<upper-cased mode>,   *)
(* LASER_DURATION:<duration> and LASER_FREQUENCY:<frequency>, in that      *)
(* order; the values are those the widgets hold when the handler is        *)
(* called, and no error entry is recorded.                                 *)
(***************************************************************************)
C10_Step ==
    calls' # calls =>
        LET c == calls'[Len(calls')]
            new == SubSeq(posts', Len(posts) + 1, Len(posts'))
            commands == [k \in 1..Len(new) |-> new[k].command]
            succeeded == \A k \in 1..Len(new) : new[k].outcome = "2xx"
        IN  /\ (/\ c.handler = "send_cue_configuration"
                /\ api_connected
                /\ succeeded) =>
                   /\ commands =
                          <<"SET_FREQUENCY_CS:" \o ToString(cue_frequency),
                            "SET_DURATION_CS:" \o ToString(cue_duration)>>
                   /\ errors' = errors
            /\ (/\ c.handler = "send_laser_configuration"
                /\ api_connected
                /\ succeeded) =>
                   /\ commands =
                          <<IF stim_mode = "Cycle"
                            THEN "LASER_STIM_MODE_CYCLE"
                            ELSE "LASER_STIM_MODE_ACTIVE-PRESS",
                            "LASER_DURATION:" \o ToString(stim_duration),
                            "LASER_FREQUENCY:" \o ToString(stim_frequency)>>
                   /\ errors' = errors

C10_ConfigCommandsInOrder == [][C10_Step]_vars

\* Both configurations were sent with success after the operator had
\* changed every widget.
C10_Witness ==
    /\ Len(calls) = 2
    /\ calls[1].handler = "send_cue_configuration"
    /\ CommandsOf(calls[1]) = <<"SET_FREQUENCY_CS:50", "SET_DURATION_CS:0">>
    /\ calls[2].handler = "send_laser_configuration"
    /\ CommandsOf(calls[2]) = <<"LASER_STIM_MODE_ACTIVE-PRESS",
                                "LASER_DURATION:1", "LASER_FREQUENCY:100">>
    /\ \A k \in 1..Len(posts) : posts[k].outcome = "2xx"
    /\ errors = <<>>

(***************************************************************************)
(* C11.  A device's armed flag and icon change only in an invocation of    *)
(* that device's own arm/disarm handler made while connected: a toggle     *)
(* handler leaves the six other devices as they were, and                  *)
(* set_active_lever, send_cue_configuration, send_laser_configuration and  *)
(* plot_square_wave leave all seven, whatever the requests' outcomes.      *)
(***************************************************************************)
C11_Step ==
    \A d \in Devices :
        (armed'[d] # armed[d] \/ icon'[d] # icon[d]) =>
            /\ calls' # calls
            /\ api_connected
            /\ calls'[Len(calls')].handler \in ArmHandlers
            /\ FlagOf(calls'[Len(calls')].handler) = d

C11_OnlyOwnHandlerChangesFlag == [][C11_Step]_vars

\* With a device armed, the plot was rendered and a handler that is not a
\* toggle ran connected and had a request fail, the device staying armed.
C11_Witness ==
    /\ square_wave # <<>>
    /\ \E i \in CallIds :
           /\ calls[i].handler \in TenHandlers \ ArmHandlers
           /\ calls[i].connected
           /\ Len(ErrorsOf(calls[i])) = 1
           /\ \E d \in Devices : calls[i].pre_armed[d] /\ armed[d]

====
